---------------------------- MODULE Spec2Model ----------------------------
(***************************************************************************)
(* A model of src/qualifier/qualifier.py: the command dispatcher           *)
(* run_command, add_quote, uwuify, list_formatted_quotes and the           *)
(* in-memory Database of quotes.                                           *)
(*                                                                         *)
(* Python str values are TLA+ strings; TLC evaluates Len, \o, SubSeq, Head *)
(* and Tail on them character by character.  The two curly quotation marks *)
(* U+201C and U+201D are single code points of the source that the module  *)
(* text cannot hold; they are written as the single characters LDQUO and   *)
(* RDQUO, which occur nowhere else in the inputs.                          *)
(***************************************************************************)
EXTENDS Integers, Sequences, FiniteSets, TLC

VARIABLES
    quotes,     \* Database.quotes: the list of Quote objects
    before,     \* Database.quotes at the entry of the last call
    call,       \* the last call: [fn, text, mode]
    raised,     \* the exception the last call propagated to its caller, or NoException
    returned,   \* the value the last call returned, or None
    stdout,     \* the lines the last call printed
    warned,     \* the warnings the last call issued
    caught      \* the exceptions raised and handled inside the last call

vars == <<quotes, before, call, raised, returned, stdout, warned, caught>>

-----------------------------------------------------------------------------
(* Program constants and literals *)

MAX_QUOTE_LENGTH == 50

NORMAL == "normal"
UWU == "uwu"
PIGLATIN == "piglatin"
VariantMode == {NORMAL, UWU, PIGLATIN}

LDQUO == "{"
RDQUO == "}"

NoException == "no exception"
None == [none |-> TRUE]
InvalidCommand == "ValueError: Invalid command"
TooLong == "ValueError: Quote is too long"
NotModified == "ValueError: Quote was not modified"
CommandNotImplemented == "NotImplementedError: Command not implemented"
DuplicateError == "DuplicateError"
AlreadyAdded == "Quote has already been added previously"
PartiallyTransformed == "Quote too long, only partially transformed"

-----------------------------------------------------------------------------
(* Python str operations *)

startswith(s, prefix) ==
    Len(s) >= Len(prefix) /\ SubSeq(s, 1, Len(prefix)) = prefix

endswith(s, suffix) ==
    Len(s) >= Len(suffix) /\ SubSeq(s, Len(s) - Len(suffix) + 1, Len(s)) = suffix

\* s[start:-1]: the characters at the 0-based indices start .. len(s)-2
SliceToLast(s, start) ==
    LET n == Len(s)
        lo == IF start > n THEN n ELSE start
        hi == IF n = 0 THEN 0 ELSE n - 1
    IN  IF lo >= hi THEN "" ELSE SubSeq(s, lo + 1, hi)

RECURSIVE find(_, _, _)
\* the least 1-based index >= i at which the character sep occurs in s, or 0
find(s, sep, i) ==
    IF i > Len(s) THEN 0
    ELSE IF SubSeq(s, i, i) = sep THEN i
    ELSE find(s, sep, i + 1)

RECURSIVE replace(_, _, _)
\* s.replace(old, new) for a one-character old: every occurrence, left to right
replace(s, old, new) ==
    LET k == find(s, old, 1)
    IN  IF k = 0 THEN s
        ELSE SubSeq(s, 1, k - 1) \o new \o replace(SubSeq(s, k + 1, Len(s)), old, new)

RECURSIVE split(_, _)
\* s.split(sep) for a one-character sep: empty words are kept
split(s, sep) ==
    LET k == find(s, sep, 1)
    IN  IF k = 0 THEN <<s>>
        ELSE <<SubSeq(s, 1, k - 1)>> \o split(SubSeq(s, k + 1, Len(s)), sep)

RECURSIVE join(_, _)
\* sep.join(words)
join(sep, words) ==
    IF Len(words) = 0 THEN ""
    ELSE IF Len(words) = 1 THEN words[1]
    ELSE words[1] \o sep \o join(sep, Tail(words))

-----------------------------------------------------------------------------
(* class Quote *)

Quote(quote, mode) == [quote |-> quote, mode |-> mode]

str(q) == q.quote

-----------------------------------------------------------------------------
(* uwuify: the result is [raised, value, warned] *)

\* mutant of partially_transformed_quote: the lower-case l is not replaced
partially_transformed_quote_keeps_l(quote) ==
    replace(replace(replace(quote, "L", "W"), "R", "W"), "r", "w")

partially_transformed_quote(quote) ==
    replace(replace(replace(replace(quote, "L", "W"), "l", "w"), "R", "W"), "r", "w")

uwu_word(word) ==
    IF startswith(word, "U") THEN "U-" \o word
    ELSE IF startswith(word, "u") THEN "u-" \o word
    ELSE word

fully_transformed_quote(quote) ==
    LET words == split(partially_transformed_quote(quote), " ")
    IN  join(" ", [i \in 1..Len(words) |-> uwu_word(words[i])])

\* mutant of uwuify: the comparison with the input is missing
uwuify_unchecked(quote) ==
    LET partial == partially_transformed_quote(quote)
        full == fully_transformed_quote(quote)
        fallback == Len(full) > MAX_QUOTE_LENGTH
    IN  [raised |-> NoException,
         value |-> IF fallback THEN partial ELSE full,
         warned |-> IF fallback THEN <<PartiallyTransformed>> ELSE <<>>]

uwuify(quote) ==
    LET partial == partially_transformed_quote(quote)
        full == fully_transformed_quote(quote)
        fallback == Len(full) > MAX_QUOTE_LENGTH
        transformed_quote == IF fallback THEN partial ELSE full
        warnings == IF fallback THEN <<PartiallyTransformed>> ELSE <<>>
    IN  IF transformed_quote = quote
        THEN [raised |-> NotModified, value |-> None, warned |-> warnings]
        ELSE [raised |-> NoException, value |-> transformed_quote, warned |-> warnings]

-----------------------------------------------------------------------------
(* class Database: operations on the list of quotes *)

Database_get_quotes(db) == [i \in 1..Len(db) |-> str(db[i])]

\* mutant of Database.add_quote: the membership test is missing
Database_add_quote_unchecked(db, q) ==
    [raised |-> NoException, quotes |-> Append(db, q)]

\* the result is [raised, quotes]
Database_add_quote(db, q) ==
    IF \E i \in 1..Len(db) : Database_get_quotes(db)[i] = str(q)
    THEN [raised |-> DuplicateError, quotes |-> db]
    ELSE [raised |-> NoException, quotes |-> Append(db, q)]

-----------------------------------------------------------------------------
(* list_formatted_quotes and add_quote *)

\* mutant of list_formatted_quotes: the newline ends every line
list_formatted_quotes_terminated(db) ==
    LET texts == Database_get_quotes(db)
    IN  join("", [i \in 1..Len(texts) |-> "- " \o texts[i] \o "\n"])

list_formatted_quotes(db) ==
    LET texts == Database_get_quotes(db)
    IN  join("\n", [i \in 1..Len(texts) |-> "- " \o texts[i]])

\* mutant of add_quote: the length is checked after the quote is added
add_quote_checks_late(db, quote, mode) ==
    LET r == Database_add_quote(db, Quote(quote, mode))
    IN  IF Len(quote) > MAX_QUOTE_LENGTH
        THEN [raised |-> TooLong, quotes |-> r.quotes, stdout |-> <<>>, caught |-> <<>>]
        ELSE IF r.raised = DuplicateError
        THEN [raised |-> NoException, quotes |-> r.quotes,
              stdout |-> <<AlreadyAdded>>, caught |-> <<DuplicateError>>]
        ELSE [raised |-> NoException, quotes |-> r.quotes,
              stdout |-> <<>>, caught |-> <<>>]

\* mutant of add_quote: a text of MAX_QUOTE_LENGTH characters is rejected
add_quote_rejects_max(db, quote, mode) ==
    IF Len(quote) >= MAX_QUOTE_LENGTH
    THEN [raised |-> TooLong, quotes |-> db, stdout |-> <<>>, caught |-> <<>>]
    ELSE LET r == Database_add_quote(db, Quote(quote, mode))
         IN  IF r.raised = DuplicateError
             THEN [raised |-> NoException, quotes |-> r.quotes,
                   stdout |-> <<AlreadyAdded>>, caught |-> <<DuplicateError>>]
             ELSE [raised |-> NoException, quotes |-> r.quotes,
                   stdout |-> <<>>, caught |-> <<>>]

\* mutant of add_quote: DuplicateError is not caught
add_quote_propagates(db, quote, mode) ==
    IF Len(quote) > MAX_QUOTE_LENGTH
    THEN [raised |-> TooLong, quotes |-> db, stdout |-> <<>>, caught |-> <<>>]
    ELSE LET r == Database_add_quote(db, Quote(quote, mode))
         IN  [raised |-> r.raised, quotes |-> r.quotes, stdout |-> <<>>, caught |-> <<>>]

\* the result is [raised, quotes, stdout, caught]
add_quote(db, quote, mode) ==
    IF Len(quote) > MAX_QUOTE_LENGTH
    THEN [raised |-> TooLong, quotes |-> db, stdout |-> <<>>, caught |-> <<>>]
    ELSE LET r == Database_add_quote(db, Quote(quote, mode))
         IN  IF r.raised = DuplicateError
             THEN [raised |-> NoException, quotes |-> r.quotes,
                   stdout |-> <<AlreadyAdded>>, caught |-> <<DuplicateError>>]
             ELSE [raised |-> NoException, quotes |-> r.quotes,
                   stdout |-> <<>>, caught |-> <<>>]

-----------------------------------------------------------------------------
(* The calls.  Every call records the store at its entry and its outcome. *)

Outcome(fn, text, mode, res) ==
    /\ before' = quotes
    /\ call' = [fn |-> fn, text |-> text, mode |-> mode]
    /\ quotes' = res.quotes
    /\ raised' = res.raised
    /\ returned' = res.returned
    /\ stdout' = res.stdout
    /\ warned' = res.warned
    /\ caught' = res.caught

Raise(db, exception, warnings) ==
    [quotes |-> db, raised |-> exception, returned |-> None,
     stdout |-> <<>>, warned |-> warnings, caught |-> <<>>]

is_uwu_command(command) == startswith(command, "quote uwu")

is_piglatin_command(command) ==
    ~is_uwu_command(command) /\ startswith(command, "quote piglatin")

\* mutant of the `quote list` guard: the whole command is compared
is_list_command_exact(command) == command = "quote list"

is_list_command(command) ==
    /\ ~is_uwu_command(command)
    /\ ~startswith(command, "quote piglatin")
    /\ startswith(command, "quote list")

is_normal_command(command) ==
    /\ ~is_uwu_command(command)
    /\ ~startswith(command, "quote piglatin")
    /\ ~startswith(command, "quote list")
    /\ \/ startswith(command, "quote \"") /\ endswith(command, "\"")
       \/ startswith(command, "quote " \o LDQUO) /\ endswith(command, RDQUO)

\* mutant of the uwu slice: it starts one character early
raw_quote_uwu_from_10(command) == SliceToLast(command, 10)

raw_quote_uwu(command) == SliceToLast(command, 11)

\* mutant of the normal slice: it starts one character early
raw_quote_normal_from_6(command) == SliceToLast(command, 6)

raw_quote_normal(command) == SliceToLast(command, 7)

\* case command if command.startswith("quote uwu")
run_command_uwu(db, command) ==
    LET u == uwuify(raw_quote_uwu(command))
        a == add_quote(db, u.value, UWU)
    IN  IF u.raised # NoException
        THEN Raise(db, u.raised, u.warned)
        ELSE [quotes |-> a.quotes, raised |-> a.raised, returned |-> None,
              stdout |-> a.stdout, warned |-> u.warned, caught |-> a.caught]

\* case command if command.startswith("quote piglatin"): the slice
\* command[16:-1] is computed and dropped
run_command_piglatin(db, command) == Raise(db, CommandNotImplemented, <<>>)

\* case command if command.startswith("quote list")
run_command_list(db, command) ==
    [quotes |-> db, raised |-> NoException, returned |-> None,
     stdout |-> <<list_formatted_quotes(db)>>, warned |-> <<>>, caught |-> <<>>]

\* case command if the straight or the curly quotation marks enclose it
run_command_normal(db, command) ==
    LET a == add_quote(db, raw_quote_normal(command), NORMAL)
    IN  [quotes |-> a.quotes, raised |-> a.raised, returned |-> None,
         stdout |-> a.stdout, warned |-> <<>>, caught |-> a.caught]

\* case _
run_command_invalid(db, command) == Raise(db, InvalidCommand, <<>>)

run_command(command) ==
    \/ /\ is_uwu_command(command)
       /\ Outcome("run_command", command, "-", run_command_uwu(quotes, command))
    \/ /\ is_piglatin_command(command)
       /\ Outcome("run_command", command, "-", run_command_piglatin(quotes, command))
    \/ /\ is_list_command(command)
       /\ Outcome("run_command", command, "-", run_command_list(quotes, command))
    \/ /\ is_normal_command(command)
       /\ Outcome("run_command", command, "-", run_command_normal(quotes, command))
    \/ /\ ~is_uwu_command(command)
       /\ ~is_piglatin_command(command)
       /\ ~is_list_command(command)
       /\ ~is_normal_command(command)
       /\ Outcome("run_command", command, "-", run_command_invalid(quotes, command))

call_add_quote(quote, mode) ==
    LET a == add_quote(quotes, quote, mode)
    IN  Outcome("add_quote", quote, mode,
                [quotes |-> a.quotes, raised |-> a.raised, returned |-> None,
                 stdout |-> a.stdout, warned |-> <<>>, caught |-> a.caught])

call_Database_add_quote(quote, mode) ==
    LET r == Database_add_quote(quotes, Quote(quote, mode))
    IN  Outcome("Database.add_quote", quote, mode,
                [quotes |-> r.quotes, raised |-> r.raised, returned |-> None,
                 stdout |-> <<>>, warned |-> <<>>, caught |-> <<>>])

call_uwuify(quote) ==
    LET u == uwuify(quote)
    IN  Outcome("uwuify", quote, "-",
                [quotes |-> quotes, raised |-> u.raised, returned |-> u.value,
                 stdout |-> <<>>, warned |-> u.warned, caught |-> <<>>])

-----------------------------------------------------------------------------
(* Bounds and inputs *)

\* the calls stop once the store holds MaxQuotes quotes
MaxQuotes == 2

\* the longest text over Alphabet given to uwuify, before padding
MaxLen == 3

RECURSIVE Rep(_, _)
Rep(c, n) == IF n <= 0 THEN "" ELSE c \o Rep(c, n - 1)

Bounded(inputs) == IF Len(quotes) < MaxQuotes THEN inputs ELSE {}

FirstCall(inputs) == IF call.fn = "init" THEN inputs ELSE {}

Prefixes ==
    {"quote uwu\"", "quote uwu \"", "quote piglatin\"", "quote list",
     "quote \"", "quote " \o LDQUO, "quote ", "Quote \""}

Suffixes == {"\"", RDQUO, ""}

ShortBodies == {"", "hello world", "really loud"}

LongBodies ==
    {"u" \o Rep("a", MAX_QUOTE_LENGTH - 3), "u" \o Rep("a", MAX_QUOTE_LENGTH - 2),
     "ul" \o Rep("a", MAX_QUOTE_LENGTH - 2), "l" \o Rep("a", MAX_QUOTE_LENGTH)}

Commands ==
    {p \o b \o s : p \in Prefixes, b \in ShortBodies, s \in Suffixes}
    \cup {"quote \"hello\"", "quote listing", "quote uwu", "quote piglatin \"test\""}
    \cup {"quote \"" \o Rep("a", n) \o "\"" : n \in {MAX_QUOTE_LENGTH, MAX_QUOTE_LENGTH + 1}}
    \cup {"quote uwu \"" \o b \o "\"" : b \in LongBodies}

AddTexts == {"hello world", Rep("a", MAX_QUOTE_LENGTH), Rep("a", MAX_QUOTE_LENGTH + 1)}

DatabaseTexts == {"hello world", Rep("a", MAX_QUOTE_LENGTH + 1)}

StoreCommands ==
    {"quote \"A\"", "quote \"B\"", "quote " \o LDQUO \o "C" \o RDQUO,
     "quote uwu \"really loud\"", "quote uwu \"hello\"", "quote list",
     "quote piglatin \"test\"", "quote A", "quote \"" \o Rep("a", MAX_QUOTE_LENGTH + 1) \o "\""}

Alphabet == {"l", "R", "u", "U", "a", " "}

RECURSIVE StringsUpTo(_)
\* the strings over Alphabet of at most n characters
StringsUpTo(n) ==
    IF n = 0 THEN {""}
    ELSE LET shorter == StringsUpTo(n - 1)
         IN  shorter \cup {s \o c : s \in shorter, c \in Alphabet}

\* the short texts, and each of them padded to a length around MAX_QUOTE_LENGTH
UwuTexts ==
    StringsUpTo(MaxLen)
    \cup {s \o Rep("a", MAX_QUOTE_LENGTH - k) : s \in StringsUpTo(MaxLen), k \in 0..MaxLen}

-----------------------------------------------------------------------------
(* Specifications *)

Init ==
    /\ quotes = <<>>
    /\ before = <<>>
    /\ call = [fn |-> "init", text |-> "", mode |-> "-"]
    /\ raised = NoException
    /\ returned = None
    /\ stdout = <<>>
    /\ warned = <<>>
    /\ caught = <<>>

RunCommand == \E command \in Bounded(Commands) : run_command(command)

AddQuote ==
    \E quote \in Bounded(AddTexts), mode \in VariantMode : call_add_quote(quote, mode)

DatabaseAddQuote ==
    \E quote \in Bounded(DatabaseTexts), mode \in VariantMode :
        call_Database_add_quote(quote, mode)

RunStoreCommand == \E command \in StoreCommands : run_command(command)

Uwuify == \E quote \in FirstCall(UwuTexts) : call_uwuify(quote)

\* the dispatcher and add_quote, on a store of at most MaxQuotes quotes
Next == RunCommand \/ AddQuote

Spec == Init /\ [][Next]_vars

\* every entry point of the module, Database.add_quote included
NextAPI == RunCommand \/ AddQuote \/ DatabaseAddQuote

SpecAPI == Init /\ [][NextAPI]_vars

\* a few commands, on a store that grows to every text they can add
NextStore == RunStoreCommand

SpecStore == Init /\ [][NextStore]_vars

\* uwuify alone, applied once to each text of UwuTexts
NextUwuify == Uwuify

SpecUwuify == Init /\ [][NextUwuify]_vars

-----------------------------------------------------------------------------
(* Vocabulary of the properties *)

stored_texts(db) == {db[i].quote : i \in 1..Len(db)}

IsPrefix(s, t) == Len(s) <= Len(t) /\ SubSeq(t, 1, Len(s)) = s

IsRunCommand == call.fn = "run_command"

\* command is prefix, then a text, then suffix
Encloses(command, prefix, suffix) ==
    /\ Len(command) >= Len(prefix) + Len(suffix)
    /\ startswith(command, prefix)
    /\ endswith(command, suffix)

\* the text of a command between a prefix and a one-character closing mark
Enclosed(command, prefix) == SubSeq(command, Len(prefix) + 1, Len(command) - 1)

-----------------------------------------------------------------------------
(* C1: in every state reached by run_command, add_quote and                *)
(* Database.add_quote calls from the empty store, no two stored quotes     *)
(* have the same text, whatever their modes.                               *)

C1_NoDuplicateTexts ==
    \A i, j \in 1..Len(quotes) : i # j => str(quotes[i]) # str(quotes[j])

\* a stored text was offered again under another mode and rejected
C1_Witness ==
    /\ call.fn = "Database.add_quote"
    /\ raised = DuplicateError
    /\ Len(quotes) = 1
    /\ str(quotes[1]) = call.text
    /\ quotes[1].mode # call.mode

-----------------------------------------------------------------------------
(* C2: a run_command call that ends in an error ends in InvalidCommand,    *)
(* TooLong, NotModified or NotImplemented and leaves the sequence of       *)
(* stored quotes as it was at the call's entry.                            *)

C2_FailedCommandKeepsStore ==
    (IsRunCommand /\ raised # NoException) =>
        /\ raised \in {InvalidCommand, TooLong, NotModified, CommandNotImplemented}
        /\ quotes = before

\* uwuify succeeded and add_quote then refused the text, on a non-empty store
C2_Witness ==
    /\ IsRunCommand
    /\ is_uwu_command(call.text)
    /\ raised = TooLong
    /\ Len(quotes) = 1
    /\ quotes = before

-----------------------------------------------------------------------------
(* C3, as stated: for a command `quote uwu"<text>"`, when uwuify(<text>)   *)
(* succeeds with at most 50 characters that are not stored, the store      *)
(* gains exactly one UWU quote whose text is uwuify(<text>).               *)

C3_Original ==
    LET c == call.text
        text == Enclosed(c, "quote uwu\"")
        t == uwuify(text)
    IN  ( /\ IsRunCommand
          /\ Encloses(c, "quote uwu\"", "\"")
          /\ t.raised = NoException
          /\ Len(t.value) <= MAX_QUOTE_LENGTH
          /\ t.value \notin stored_texts(before) )
        => quotes = Append(before, Quote(t.value, UWU))

(* C3, amended: the text handed to uwuify is command[11:-1].  For a        *)
(* command `quote uwu "<text>"`, with one space before the opening mark,   *)
(* that is <text>, and when uwuify(<text>) succeeds with at most 50        *)
(* characters that are not stored, the store gains exactly one UWU quote   *)
(* whose text is uwuify(<text>): `quote uwu "really loud"` stores          *)
(* `weawwy woud`.  For `quote uwu"<text>"` the first character of <text>   *)
(* is dropped: `quote uwu"really loud"` stores `eawwy woud`.               *)

C3_UwuCommandAddsTransformed ==
    LET c == call.text
        text == Enclosed(c, "quote uwu \"")
        t == uwuify(text)
    IN  /\ ( /\ IsRunCommand
             /\ Encloses(c, "quote uwu \"", "\"")
             /\ t.raised = NoException
             /\ Len(t.value) <= MAX_QUOTE_LENGTH
             /\ t.value \notin stored_texts(before) )
           => quotes = Append(before, Quote(t.value, UWU))
        /\ (IsRunCommand /\ c = "quote uwu \"really loud\""
                /\ "weawwy woud" \notin stored_texts(before))
           => quotes = Append(before, [quote |-> "weawwy woud", mode |-> UWU])
        /\ (IsRunCommand /\ c = "quote uwu\"really loud\""
                /\ "eawwy woud" \notin stored_texts(before))
           => quotes = Append(before, [quote |-> "eawwy woud", mode |-> UWU])

\* `quote uwu "really loud"` added `weawwy woud` behind an earlier quote
C3_Witness ==
    /\ IsRunCommand
    /\ call.text = "quote uwu \"really loud\""
    /\ Len(before) = 1
    /\ quotes = Append(before, [quote |-> "weawwy woud", mode |-> UWU])

-----------------------------------------------------------------------------
(* C4, as stated: run_command fails with InvalidCommand for every command  *)
(* that is not of a recognized form.  The forms are read generously: the   *)
(* uwu and piglatin forms with or without a space before the opening mark. *)

RecognizedForm(c) ==
    \/ Encloses(c, "quote uwu\"", "\"")
    \/ Encloses(c, "quote uwu \"", "\"")
    \/ Encloses(c, "quote piglatin\"", "\"")
    \/ Encloses(c, "quote piglatin \"", "\"")
    \/ c = "quote list"
    \/ Encloses(c, "quote \"", "\"")
    \/ Encloses(c, "quote " \o LDQUO, RDQUO)

C4_Original ==
    (IsRunCommand /\ ~RecognizedForm(call.text)) => raised = InvalidCommand

(* C4, amended: run_command fails with InvalidCommand exactly for the      *)
(* commands that match none of the dispatcher's patterns: those that do    *)
(* not start with `quote uwu`, `quote piglatin` or `quote list` and do not *)
(* both start with `quote "` and end with `"` (or the curly marks); such a *)
(* command adds nothing and prints nothing.  A command that only starts    *)
(* with one of the three words is handled by that word's branch.           *)

MatchesPattern(c) ==
    \/ startswith(c, "quote uwu")
    \/ startswith(c, "quote piglatin")
    \/ startswith(c, "quote list")
    \/ startswith(c, "quote \"") /\ endswith(c, "\"")
    \/ startswith(c, "quote " \o LDQUO) /\ endswith(c, RDQUO)

C4_InvalidIffNoPattern ==
    IsRunCommand =>
        /\ raised = InvalidCommand <=> ~MatchesPattern(call.text)
        /\ raised = InvalidCommand => (quotes = before /\ stdout = <<>>)
        /\ startswith(call.text, "quote list")
           => (raised = NoException /\ stdout = <<list_formatted_quotes(before)>>)
        /\ startswith(call.text, "quote piglatin") => raised = CommandNotImplemented

\* an opening mark with no closing mark is invalid, on a non-empty store
C4_Witness ==
    /\ IsRunCommand
    /\ call.text = "quote \"hello world"
    /\ raised = InvalidCommand
    /\ Len(quotes) = 1

-----------------------------------------------------------------------------
(* C5: add_quote fails with TooLong exactly when the text has more than 50 *)
(* characters (50 are accepted, 51 rejected), and every stored quote has   *)
(* at most 50 characters, also after uwu commands that lengthen the text.  *)

C5_TooLongIffOver50 ==
    /\ \A i \in 1..Len(quotes) : Len(str(quotes[i])) <= 50
    /\ call.fn = "add_quote" =>
          /\ raised = TooLong <=> Len(call.text) > 50
          /\ Len(call.text) = 50 => call.text \in stored_texts(quotes)
          /\ Len(call.text) = 51 => (raised = TooLong /\ quotes = before)
    /\ (IsRunCommand /\ Encloses(call.text, "quote \"", "\"")) =>
          (raised = TooLong <=> Len(call.text) - 8 > 50)

\* a 48-character text was lengthened by uwuify and stored with 50 characters
C5_Witness ==
    /\ IsRunCommand
    /\ is_uwu_command(call.text)
    /\ Len(call.text) = 11 + 48 + 1
    /\ Len(quotes) = Len(before) + 1
    /\ Len(str(quotes[Len(quotes)])) = 50

-----------------------------------------------------------------------------
(* C6: adding a text that is already stored raises DuplicateError inside   *)
(* Database.add_quote whatever the two modes are; add_quote catches it,    *)
(* prints the "already added" notice, propagates no exception and leaves   *)
(* the store unchanged.                                                    *)

-----------------------------------------------------------------------------
(* C7: the store is append-only and keeps its order: the stored quotes at  *)
(* a call's entry are a prefix of those after it, `quote list` changes     *)
(* nothing, adding A, B, C in that order gives get_quotes() = [A, B, C]    *)
(* and the listing "- A\n- B\n- C", and the empty store lists as "".       *)

C7_AppendOnlyInOrder ==
    /\ IsPrefix(before, quotes)
    /\ Len(quotes) <= Len(before) + 1
    /\ (IsRunCommand /\ call.text = "quote list") =>
          /\ quotes = before
          /\ quotes = <<>> => stdout = <<"">>
          /\ Database_get_quotes(quotes) = <<"A">> => stdout = <<"- A">>
          /\ Database_get_quotes(quotes) = <<"A", "B">> => stdout = <<"- A\n- B">>
          /\ Database_get_quotes(quotes) = <<"A", "B", "C">>
             => stdout = <<"- A\n- B\n- C">>
          /\ Len(quotes) > 0 =>
                /\ startswith(stdout[1], "- " \o str(quotes[1]))
                /\ endswith(stdout[1], "\n- " \o str(quotes[Len(quotes)]))
                      \/ Len(quotes) = 1
    /\ (IsRunCommand /\ call.text = "quote \"A\"" /\ before = <<>>)
          => Database_get_quotes(quotes) = <<"A">>
    /\ (IsRunCommand /\ call.text = "quote \"B\""
            /\ Database_get_quotes(before) = <<"A">>)
          => Database_get_quotes(quotes) = <<"A", "B">>
    /\ (IsRunCommand /\ call.text = "quote " \o LDQUO \o "C" \o RDQUO
            /\ Database_get_quotes(before) = <<"A", "B">>)
          => /\ Database_get_quotes(quotes) = <<"A", "B", "C">>
             /\ list_formatted_quotes(quotes) = "- A\n- B\n- C"

\* `quote list` printed the three quotes added in the order A, B, C
C7_Witness ==
    /\ IsRunCommand
    /\ call.text = "quote list"
    /\ Database_get_quotes(quotes) = <<"A", "B", "C">>
    /\ stdout = <<"- A\n- B\n- C">>

-----------------------------------------------------------------------------
(* C8: a command `quote "<text>"`, or the same with the curly opening and  *)
(* closing marks around <text>, whose text has at                          *)
(* most 50 characters and is not stored leaves the stored quotes untouched *)
(* and appends exactly one quote, with the text verbatim and mode NORMAL.  *)

C8_NormalCommandAppendsVerbatim ==
    \A marks \in {<<"\"", "\"">>, <<LDQUO, RDQUO>>} :
        LET c == call.text
            text == Enclosed(c, "quote " \o marks[1])
        IN  ( /\ IsRunCommand
              /\ Encloses(c, "quote " \o marks[1], marks[2])
              /\ Len(text) <= 50
              /\ text \notin stored_texts(before) )
            => quotes = Append(before, [quote |-> text, mode |-> NORMAL])

\* the curly form appended `hello world` behind an earlier quote
C8_Witness ==
    /\ IsRunCommand
    /\ call.text = "quote " \o LDQUO \o "hello world" \o RDQUO
    /\ Len(before) = 1
    /\ quotes = Append(before, [quote |-> "hello world", mode |-> NORMAL])

-----------------------------------------------------------------------------
(* C9, as stated: `quote uwu"hello world"` fails with NotModified and the  *)
(* store is as before.                                                     *)

C9_Original ==
    (IsRunCommand /\ call.text = "quote uwu\"hello world\"") =>
        (raised = NotModified /\ quotes = before)

(* C9, amended: `quote uwu"hello world"` does not fail: uwuify is given    *)
(* `ello world`, which has l and r, and returns `ewwo wowwd`; the store    *)
(* gains that text as a UWU quote, unless it is already stored, and then   *)
(* the store is as before and the "already added" notice is printed.       *)

C9_HelloWorldIsStored ==
    (IsRunCommand /\ call.text = "quote uwu\"hello world\"") =>
        /\ raised = NoException
        /\ IF "ewwo wowwd" \in stored_texts(before)
           THEN quotes = before /\ stdout = <<AlreadyAdded>>
           ELSE quotes = Append(before, [quote |-> "ewwo wowwd", mode |-> UWU])

\* the command stored `ewwo wowwd` in the empty store
C9_Witness ==
    /\ IsRunCommand
    /\ call.text = "quote uwu\"hello world\""
    /\ quotes = <<[quote |-> "ewwo wowwd", mode |-> UWU]>>

-----------------------------------------------------------------------------
(* C10: uwuify(T) never returns T: it returns another string or fails with *)
(* NotModified.  It fails with NotModified for every T that has none of    *)
(* L, l, R, r and no space-delimited word starting with U or u, and also   *)
(* when T has such words but none of L, l, R, r and the fully transformed  *)
(* text, two characters longer per such word, exceeds 50 characters.       *)

HasLR(t) == \E i \in 1..Len(t) : SubSeq(t, i, i) \in {"L", "l", "R", "r"}

UWordStarts(t) ==
    {i \in 1..Len(t) : /\ SubSeq(t, i, i) \in {"U", "u"}
                       /\ (i = 1 \/ SubSeq(t, i - 1, i - 1) = " ")}

C10_NeverReturnsInput ==
    call.fn = "uwuify" =>
        LET t == call.text
            n == Cardinality(UWordStarts(t))
        IN  /\ raised \in {NoException, NotModified}
            /\ raised = NoException => returned # t
            /\ (~HasLR(t) /\ n = 0) => raised = NotModified
            /\ (~HasLR(t) /\ n > 0 /\ Len(t) + 2 * n > 50) => raised = NotModified

\* the full transform was too long and the fallback text was the input
C10_Witness ==
    /\ call.fn = "uwuify"
    /\ raised = NotModified
    /\ warned = <<PartiallyTransformed>>
    /\ Len(call.text) <= 50

=============================================================================
